---- MODULE Spec2Model ----
(***************************************************************************)
(* breadability: Article._readable (src/breadability/readable.py) as a     *)
(* state machine over a small DOM.  One extraction pass: the doc property  *)
(* (parse, transform_misused_divs_into_paragraphs), find_candidates,       *)
(* winner selection, check_siblings, clean_document and the envelope       *)
(* builders.  Loops whose body mutates the tree are stepped one iteration  *)
(* at a time.                                                              *)
(***************************************************************************)
EXTENDS Integers, Sequences, FiniteSets, TLC

\* Elements of the parsed input document: 1 is <html>, 2 (when present) <body>.
MaxNodes == 5

\* ------------------------------------------------------------------ DOM ids
Node == 1..MaxNodes
\* fragment_fromstring('<div/>') of build_base_document / build_error_document
Frag == MaxNodes + 1
\* fromstring(NULL_DOCUMENT): <html><head><meta/></head><body></body></html>
NullHtml == MaxNodes + 2
NullHead == MaxNodes + 3
NullMeta == MaxNodes + 4
NullBody == MaxNodes + 5
AllNode == 1..(MaxNodes + 5)
None == 0

\* ---------------------------------------------------------- pattern tables
\* An attribute value is a sequence of word pieces ("comments" is
\* <<"comment", "s">>); a pattern is the set of its alternatives, and
\* re.search finds it when one of the pieces is an alternative.
UNLIKELY == {"combx", "comment", "community", "disqus", "extra", "foot",
             "header", "menu", "remark", "rss", "shoutbox", "sidebar",
             "sponsor", "ad-break", "agegate", "pagination", "pager",
             "popup", "tweet", "twitter"}
MAYBE == {"and", "article", "body", "column", "main", "shadow"}
POSITIVE == {"article", "body", "content", "entry", "hentry", "main", "page",
             "pagination", "post", "text", "blog", "story"}
NEGATIVE == {"combx", "comment", "com-", "contact", "foot", "footer",
             "footnote", "masthead", "media", "meta", "outbrain", "promo",
             "related", "scroll", "shoutbox", "sidebar", "sponsor",
             "shopping", "tags", "tool", "widget"}

Search(pattern, value) == \E i \in 1..Len(value) : value[i] \in pattern

SCORABLE_TAGS == {"div", "p", "td", "pre", "article"}

\* ------------------------------------------------------------ input values
NoAttr == << >>
NoText == [len |-> 0, commas |-> 0, dot |-> FALSE]
\* 30 characters, two sentences (contains ". "), no comma
ShortText == [len |-> 30, commas |-> 0, dot |-> TRUE]
\* 100 characters, one sentence, no comma
LongText == [len |-> 100, commas |-> 0, dot |-> FALSE]

\* href as the lengths of href.split('#'); << >> is a missing attribute
NoHref == << >>
PlainHref == << 12 >>
LongFragmentHref == << 12, 26 >>

Element(t, c, s, x, h, n) ==
    [tag |-> t, cls |-> c, style |-> s, text |-> x, href |-> h, name |-> n,
     keywords |-> {}]

\* The elements an input document is built from below <body>: containers
\* and paragraphs with each kind of class, a short and an empty paragraph,
\* one with an inline style, a good and a bad link, and a form field.
ClassValues == {NoAttr, <<"content">>, <<"header">>, <<"widget">>}
ElementKinds ==
    { Element("div", c, "-", NoText, NoHref, FALSE) : c \in ClassValues }
    \cup { Element("p", c, "-", LongText, NoHref, FALSE) : c \in ClassValues }
    \cup { Element("p", NoAttr, "-", NoText, NoHref, FALSE),
           Element("p", NoAttr, "-", ShortText, NoHref, FALSE),
           Element("p", NoAttr, "color:red", LongText, NoHref, FALSE),
           Element("a", NoAttr, "-", ShortText, PlainHref, FALSE),
           Element("a", NoAttr, "-", ShortText, LongFragmentHref, FALSE),
           Element("input", NoAttr, "-", NoText, NoHref, FALSE) }

VARIABLES
    tag,        \* AllNode -> tag name ("-": no such element)
    parent,     \* AllNode -> parent element or None
    children,   \* AllNode -> sequence of child elements
    attr,       \* AllNode -> [cls, id, style]: attribute values
    content,    \* AllNode -> [tag, text, href, name, keywords]: the element as
                \* the parser built it, which no step rewrites
    parsed,     \* OriginalDocument.html: TRUE, or FALSE when it raises ValueError
    fragment,   \* Article.fragment
    pc,         \* where the pass stands
    todo,       \* the elements the running loop has still to visit
    candidates, \* Article.candidates: element -> content_score ([num, den])
    should_drop,\* Article._should_drop
    winner,     \* by_score[0].node, or None
    target,     \* the node clean_document was called on
    clean_list, \* clean_document's clean_list
    to_drop,    \* clean_document's to_drop
    caller,     \* the method in control: "_readable" or "_handle_no_candidates"
    siblings,   \* check_siblings' siblings
    long_paragraphs, \* history: the siblings check_siblings found to be a <p>
                \* of more than 80 characters and link density under 0.25
    condemned,  \* history: the nodes clean_document visited with fewer than 10
                \* commas and too many inputs or too dense in links
    output      \* the root _readable returned, or None

dom == <<tag, parent, children, attr>>
history == <<long_paragraphs, condemned>>
input == <<content, parsed, fragment>>
vars == <<tag, parent, children, attr, content, parsed, fragment, pc, todo,
          candidates, should_drop, winner, target, clean_list, to_drop, caller,
          siblings, long_paragraphs, condemned, output>>

\* ------------------------------------------------------------- tree reads
RECURSIVE Preorder(_, _)
\* The proper descendants of the elements `kids`, with them, in document order.
Preorder(ch, kids) ==
    IF kids = << >> THEN << >>
    ELSE <<Head(kids)>> \o Preorder(ch, ch[Head(kids)]) \o Preorder(ch, Tail(kids))

\* node.iter(): the element and its descendants in document order
iter(ch, n) == <<n>> \o Preorder(ch, ch[n])
\* node.findall('.//t')
findall(tg, ch, n, t) == SelectSeq(Preorder(ch, ch[n]), LAMBDA d : tg[d] = t)

Range(s) == { s[i] : i \in 1..Len(s) }

RECURSIVE SumOver(_, _)
SumOver(f, s) == IF s = << >> THEN 0 ELSE f[Head(s)] + SumOver(f, Tail(s))

ownLen == [n \in AllNode |-> content[n].text.len]
ownCommas == [n \in AllNode |-> content[n].text.commas]

\* len(node.text_content()) and node.text_content().count(',')
text_length(ch, n) == SumOver(ownLen, iter(ch, n))
count_commas(ch, n) == SumOver(ownCommas, iter(ch, n))
has_dot_space(ch, n) == \E d \in Range(iter(ch, n)) : content[d].text.dot

\* ------------------------------------------------------- scoring helpers
\* scoring.is_unlikely_node (spec 4.2.1)
is_unlikely_node(n) ==
    LET both == attr[n].cls \o attr[n].id
    IN  /\ tag[n] \notin {"html", "body"}
        /\ Search(UNLIKELY, both)
        /\ ~Search(MAYBE, both)

\* scoring.get_class_weight (spec 4.2.3)
get_class_weight(n) ==
    LET weigh(v) == (IF Search(POSITIVE, v) THEN 25 ELSE 0)
                    + (IF Search(NEGATIVE, v) THEN -25 ELSE 0)
    IN  weigh(attr[n].cls) + weigh(attr[n].id)

\* scoring.get_link_density (spec 4.2.4) is link_length / text_total
link_length(tg, ch, n) ==
    SumOver([a \in AllNode |-> text_length(ch, a)], findall(tg, ch, n, "a"))
text_total(ch, n) == IF text_length(ch, n) > 1 THEN text_length(ch, n) ELSE 1

\* get_link_density(n) > p/q, < p/q and == 0, on the tree as it stands
density_above(n, p, q) ==
    link_length(tag, children, n) * q > p * text_total(children, n)
density_below(n, p, q) ==
    link_length(tag, children, n) * q < p * text_total(children, n)
density_zero(n) == link_length(tag, children, n) = 0

\* spec 4.3 step 4
tag_seed(t) ==
    CASE t = "div" -> 5
      [] t \in {"pre", "td", "blockquote"} -> 3
      [] t \in {"address", "ol", "ul", "dl", "dd", "dt", "li", "form"} -> -3
      [] t \in {"h1", "h2", "h3", "h4", "h5", "h6", "th"} -> -5
      [] OTHER -> 0

Min(a, b) == IF a < b THEN a ELSE b

\* spec 4.3 step 2: what a scorable node hands to its parent (0: nothing)
base(n) ==
    LET l == text_length(children, n)
    IN  IF l < 25 THEN 0
        ELSE 1 + count_commas(children, n) + Min(l \div 100, 3)

\* spec 4.3 steps 3 and 5: twice the undeflated score of candidate c
raw_score2(nodes, c) ==
    2 * (get_class_weight(c) + tag_seed(tag[c]))
    + SumOver([n \in AllNode |-> IF parent[n] = c THEN 2 * base(n) ELSE 0], nodes)
    + SumOver([n \in AllNode |->
                 IF parent[n] # None /\ parent[parent[n]] = c THEN base(n) ELSE 0],
              nodes)

\* scoring.score_candidates (spec 4.3): element -> content_score as a fraction
score_candidates(nodes) ==
    LET scoring == { n \in Range(nodes) : base(n) > 0 }
        cands == { parent[n] : n \in scoring }
                 \cup { parent[parent[n]] : n \in { m \in scoring : parent[m] # None } }
    IN  [ c \in cands \ {None} |->
            [num |-> raw_score2(nodes, c)
                     * (text_total(children, c) - link_length(tag, children, c)),
             den |-> 2 * text_total(children, c)] ]

\* a.content_score >= b.content_score, and >
score_ge(a, b) == a.num * b.den >= b.num * a.den
score_gt(a, b) == a.num * b.den > b.num * a.den

\* ------------------------------------------------------------ is_bad_link
is_bad_link(n) ==
    IF tag[n] # "a" THEN FALSE
    ELSE LET href == content[n].href
         IN  \/ content[n].name /\ href = NoHref
             \/ href # NoHref /\ Len(href) = 2 /\ href[2] > 25

\* ------------------------------------------------------ ok_embedded_video
good_keywords == {"youtube", "blip.tv", "vimeo"}
ok_embedded_video(n) ==
    \E d \in Range(iter(children, n)) : content[d].keywords \cap good_keywords # {}

\* ------------------------------------------------------------ tree writes
Remove(s, n) == SelectSeq(s, LAMBDA x : x # n)

\* lxml: unlink n from its parent (the element and its subtree stay whole)
unlink(par, ch, n) ==
    IF par[n] = None THEN <<par, ch>>
    ELSE <<[par EXCEPT ![n] = None], [ch EXCEPT ![par[n]] = Remove(@, n)]>>

\* lxml: w.append(s), for s not w nor an ancestor of it: s moves to the end
\* of w's children
append(par, ch, w, s) ==
    LET u == unlink(par, ch, s)
    IN  <<[u[1] EXCEPT ![s] = w], [u[2] EXCEPT ![w] = Append(@, s)]>>

RECURSIVE drop_nodes_with_parents(_, _, _)
\* for node in nodes: if node.getparent() is not None: node.drop_tree()
drop_nodes_with_parents(par, ch, nodes) ==
    IF nodes = << >> THEN <<par, ch>>
    ELSE LET u == unlink(par, ch, Head(nodes))
         IN  drop_nodes_with_parents(u[1], u[2], Tail(nodes))

\* ------------------------------------------------------------------ Init
\* The parsed document: <html> holding <body>, and below it up to
\* MaxNodes - 2 elements, each the child of an earlier one.  As the HTML
\* parser builds it: <input> and (here) <a> hold no element, and a <p> holds
\* no <div> or <p>.
Shapes(n) == { f \in [3..n -> 2..(n - 1)] : \A i \in 3..n : f[i] < i }

WellNested(n, f, k) ==
    \A i \in 3..n :
        f[i] # 2 =>
            /\ k[f[i]].tag \in {"div", "p"}
            /\ k[f[i]].tag = "p" => k[i].tag \notin {"div", "p"}

Init ==
    /\ parsed \in BOOLEAN
    /\ fragment \in BOOLEAN
    /\ \E n \in 1..MaxNodes :
        \E f \in Shapes(n) :
        \E k \in [3..n -> ElementKinds] :
          /\ WellNested(n, f, k)
          /\ ~parsed => n = 1
          /\ tag = [x \in AllNode |->
                      IF x > n THEN "-"
                      ELSE IF x = 1 THEN "html"
                      ELSE IF x = 2 THEN "body" ELSE k[x].tag]
          /\ parent = [x \in AllNode |->
                         IF x > n \/ x = 1 THEN None
                         ELSE IF x = 2 THEN 1 ELSE f[x]]
          /\ children = [x \in AllNode |->
                           IF x = 1 THEN (IF n >= 2 THEN <<2>> ELSE << >>)
                           ELSE SelectSeq([i \in 1..MaxNodes |-> i],
                                          LAMBDA c : c >= 3 /\ c <= n /\ f[c] = x)]
          /\ attr = [x \in AllNode |->
                       IF x >= 3 /\ x <= n
                       THEN [cls |-> k[x].cls, id |-> NoAttr, style |-> k[x].style]
                       ELSE [cls |-> NoAttr, id |-> NoAttr, style |-> "-"]]
          /\ content = [x \in AllNode |->
                          IF x >= 3 /\ x <= n
                          THEN [tag |-> k[x].tag, text |-> k[x].text,
                                href |-> k[x].href, name |-> k[x].name,
                                keywords |-> k[x].keywords]
                          ELSE [tag |-> IF x > n THEN "-"
                                        ELSE IF x = 1 THEN "html" ELSE "body",
                                text |-> NoText, href |-> NoHref,
                                name |-> FALSE, keywords |-> {}]]
    /\ pc = "start"
    /\ todo = << >>
    /\ candidates = << >>
    /\ should_drop = << >>
    /\ winner = None
    /\ target = None
    /\ clean_list = {}
    /\ to_drop = << >>
    /\ caller = "-"
    /\ siblings = << >>
    /\ long_paragraphs = {}
    /\ condemned = {}
    /\ output = None

\* ---------------------------------------------------------- Article.doc
\* The doc property up to the loop of transform_misused_divs_into_paragraphs:
\* a ValueError of the parser leaves doc None; html_cleaner finds nothing to
\* strip in these documents; document.iter(tag="div") is the <div>s in
\* document order (each next one is fetched before the body runs, and the
\* body retags only the element in hand).
Reverse(s) == [i \in 1..Len(s) |-> s[Len(s) + 1 - i]]

\* the <div>s innermost and last first, as a traversal from the leaves up
div_elements_bottom_up ==
    Reverse(SelectSeq(iter(children, 1), LAMBDA e : tag[e] = "div"))

\* document.iter(tag="div")
div_elements == SelectSeq(iter(children, 1), LAMBDA e : tag[e] = "div")

Doc ==
    /\ pc = "start"
    /\ IF parsed
       THEN /\ todo' = div_elements
            /\ pc' = "transform"
       ELSE /\ todo' = << >>
            /\ pc' = "candidates"
    /\ UNCHANGED <<dom, input, candidates, should_drop, winner, target,
                   clean_list, to_drop, caller, siblings, history, output>>

\* One turn of the loop of transform_misused_divs_into_paragraphs.
transform_misused_divs_into_paragraphs ==
    /\ pc = "transform"
    /\ todo # << >>
    /\ LET element == Head(todo)
           child_tags == { tag[c] : c \in Range(children[element]) }
       IN  tag' = IF "div" \notin child_tags
                  THEN [tag EXCEPT ![element] = "p"]
                  ELSE tag
    /\ todo' = Tail(todo)
    /\ UNCHANGED <<parent, children, attr, input, pc, candidates, should_drop,
                   winner, target, clean_list, to_drop, caller, siblings,
                   history, output>>

\* The loop is over: the doc property returns the document.
TransformReturn ==
    /\ pc = "transform"
    /\ todo = << >>
    /\ pc' = "candidates"
    /\ UNCHANGED <<dom, input, todo, candidates, should_drop, winner, target,
                   clean_list, to_drop, caller, siblings, history, output>>

\* ------------------------------------------------------- find_candidates
\* len(doc) for a parsed document
doc_len == Len(children[1])

\* the nodes find_candidates drops: unlikely ones and bad links
should_remove ==
    SelectSeq(iter(children, 1),
              LAMBDA n : is_unlikely_node(n) \/ (tag[n] = "a" /\ is_bad_link(n)))

nodes_to_score ==
    SelectSeq(iter(children, 1),
              LAMBDA n : /\ ~is_unlikely_node(n)
                         /\ ~(tag[n] = "a" /\ is_bad_link(n))
                         /\ tag[n] \in SCORABLE_TAGS)

\* The candidates property: find_candidates on a document with children,
\* None (here the empty mapping, as falsy) otherwise.
Candidates ==
    /\ pc = "candidates"
    /\ IF parsed /\ doc_len > 0
       THEN /\ candidates' = score_candidates(nodes_to_score)
            /\ should_drop' = should_remove
       ELSE /\ candidates' = << >>
            /\ UNCHANGED should_drop
    /\ pc' = "readable"
    /\ UNCHANGED <<dom, input, todo, winner, target, clean_list, to_drop,
                   caller, siblings, history, output>>

\* ---------------------------------------------------- Article._readable
\* sorted(candidates.values(), key=attrgetter('content_score'), reverse=True)
\* of the values in iteration order `order`: the sort is stable, so of two
\* equal scores the one iterated first stays first.
by_score(order) ==
    LET rank(c) ==
            Cardinality({ d \in DOMAIN candidates :
                            score_gt(candidates[d], candidates[c]) })
            + Cardinality({ d \in DOMAIN candidates :
                /\ d # c
                /\ ~score_gt(candidates[d], candidates[c])
                /\ ~score_gt(candidates[c], candidates[d])
                /\ \E i, j \in 1..Len(order) :
                       order[i] = d /\ order[j] = c /\ i < j })
    IN  [ i \in 1..Len(order) |->
            CHOOSE c \in DOMAIN candidates : rank(c) = i - 1 ]

\* The orders a dict of elements (hashed by identity) may be iterated in.
IterationOrders ==
    { o \in [1..Cardinality(DOMAIN candidates) -> DOMAIN candidates] :
        \A c \in DOMAIN candidates : \E i \in DOMAIN o : o[i] = c }

\* _readable, from the test of self.candidates to the call of check_siblings
\* and the start of its loop: the scheduled drops, the sort, the winner and
\* its parent's children.
Readable ==
    /\ pc = "readable"
    /\ IF candidates # << >>
       THEN \E order \in IterationOrders :
              LET d == drop_nodes_with_parents(parent, children, should_drop)
                  w == by_score(order)[1]
              IN  /\ parent' = d[1]
                  /\ children' = d[2]
                  /\ winner' = w
                  /\ siblings' = IF d[1][w] # None THEN d[2][d[1][w]] ELSE << >>
                  /\ todo' = siblings'
                  /\ pc' = "siblings"
       ELSE /\ pc' = "no_candidates"
            /\ UNCHANGED <<parent, children, winner, todo, siblings>>
    /\ caller' = "_readable"
    /\ UNCHANGED <<tag, attr, input, candidates, should_drop, target,
                   clean_list, to_drop, history, output>>

\* -------------------------------------------------------- check_siblings
\* candidate_list[sibling].content_score + content_bonus >= sibling_target_score
\* with content_bonus and the target a fifth of the winner's score (the
\* target at least 10), all times 5 * den(sibling) * den(winner).
reaches_target(sibling) ==
    LET s == candidates[sibling]
        w == candidates[winner]
        candidate_css == attr[winner].cls
        bonus == IF candidate_css # NoAttr /\ attr[sibling].cls = candidate_css
                 THEN w.num * s.den ELSE 0
        potential == w.num * s.den
        ten == 50 * s.den * w.den
    IN  5 * s.num * w.den + bonus >= (IF potential > ten THEN potential ELSE ten)

\* the test of a <p> sibling with the long-paragraph rule lost
paragraph_appended_short_only(sibling) ==
    /\ text_length(children, sibling) < 80
    /\ density_zero(sibling)
    /\ has_dot_space(children, sibling)

\* the test of a <p> sibling: long and light in links, or short, without a
\* link and holding ". "
paragraph_appended(sibling) ==
    LET content_length == text_length(children, sibling)
    IN  \/ content_length > 80 /\ density_below(sibling, 1, 4)
        \/ /\ content_length < 80
           /\ density_zero(sibling)
           /\ has_dot_space(children, sibling)

\* whether check_siblings appends this sibling to the winner
appended(sibling) ==
    \/ sibling = winner
    \/ sibling \in DOMAIN candidates /\ reaches_target(sibling)
    \/ tag[sibling] = "p" /\ paragraph_appended(sibling)

\* The sibling is a <p> with text length > 80 and link density < 0.25.
LongParagraph(n) ==
    /\ tag[n] = "p"
    /\ text_length(children, n) > 80
    /\ 4 * link_length(tag, children, n) < text_total(children, n)

\* One turn of the loop of check_siblings.  winner.append(winner) depends on
\* the lxml in use: it raises ValueError ("cannot append parent to itself"),
\* or (older releases) unlinks the winner and links it nowhere, libxml2
\* refusing xmlAddChild(cur, cur).
check_siblings ==
    /\ pc = "siblings"
    /\ todo # << >>
    /\ LET sibling == Head(todo)
       IN  IF appended(sibling)
           THEN /\ tag' = IF tag[sibling] \notin {"div", "p"}
                          THEN [tag EXCEPT ![sibling] = "div"]
                          ELSE tag
                /\ IF sibling = winner
                   THEN \/ /\ parent' = unlink(parent, children, sibling)[1]
                           /\ children' = unlink(parent, children, sibling)[2]
                           /\ pc' = "siblings"
                        \/ /\ pc' = "raised"
                           /\ UNCHANGED <<parent, children>>
                   ELSE /\ parent' = append(parent, children, winner, sibling)[1]
                        /\ children' = append(parent, children, winner, sibling)[2]
                        /\ pc' = "siblings"
           ELSE UNCHANGED <<tag, parent, children, pc>>
    /\ long_paragraphs' = IF LongParagraph(Head(todo))
                          THEN long_paragraphs \cup {Head(todo)}
                          ELSE long_paragraphs
    /\ todo' = Tail(todo)
    /\ UNCHANGED <<attr, input, candidates, should_drop, winner, target,
                   clean_list, to_drop, caller, siblings, condemned, output>>

\* check_siblings returns; _readable calls prep_article on the winner.
SiblingsReturn ==
    /\ pc = "siblings"
    /\ todo = << >>
    /\ target' = winner
    /\ pc' = "clean"
    /\ UNCHANGED <<dom, input, todo, candidates, should_drop, winner,
                   clean_list, to_drop, caller, siblings, history, output>>

\* -------------------------------------------------------- clean_document
count(n, t) == Len(findall(tag, children, n, t))

\* clean_conditionally with inputs > p * 3.0 for inputs > p / 3.0
clean_conditionally_times_three(node) ==
    LET weight == get_class_weight(node)
        p == count(node, "p")
        img == count(node, "img")
        li == count(node, "li") - 100
        inputs == count(node, "input")
        embed == Len(SelectSeq(findall(tag, children, node, "embed"),
                               LAMBDA e : ok_embedded_video(e)))
        content_length == text_length(children, node)
    IN  IF tag[node] \notin {"form", "table", "ul", "div", "p"} THEN FALSE
        ELSE IF weight < 0 THEN TRUE
        ELSE IF count_commas(children, node) < 10
        THEN \/ li > p /\ tag[node] # "ul" /\ tag[node] # "ol"
             \/ inputs > 3 * p
             \/ content_length < 25 /\ (img = 0 \/ img > 2)
             \/ weight < 25 /\ density_above(node, 1, 5)
             \/ weight >= 25 /\ density_above(node, 1, 2)
             \/ (embed = 1 /\ content_length < 75) \/ embed > 1
        ELSE FALSE

\* clean_conditionally(node): None and False both keep the node
clean_conditionally(node) ==
    LET weight == get_class_weight(node)
        content_score == 0
        p == count(node, "p")
        img == count(node, "img")
        li == count(node, "li") - 100
        inputs == count(node, "input")
        embed == Len(SelectSeq(findall(tag, children, node, "embed"),
                               LAMBDA e : ok_embedded_video(e)))
        content_length == text_length(children, node)
    IN  IF tag[node] \notin {"form", "table", "ul", "div", "p"} THEN FALSE
        ELSE IF weight + content_score < 0 THEN TRUE
        ELSE IF count_commas(children, node) < 10
        THEN \/ li > p /\ tag[node] # "ul" /\ tag[node] # "ol"
             \/ 3 * inputs > p
             \/ content_length < 25 /\ (img = 0 \/ img > 2)
             \/ weight < 25 /\ density_above(node, 1, 5)
             \/ weight >= 25 /\ density_above(node, 1, 2)
             \/ (embed = 1 /\ content_length < 75) \/ embed > 1
        ELSE FALSE

\* The node is a form, table, ul, div or p with fewer than 10 commas, and has
\* more inputs than a third of its paragraphs or is denser in links than 0.2
\* with a class weight under 25.
ConditionalDrop(n) ==
    /\ tag[n] \in {"form", "table", "ul", "div", "p"}
    /\ count_commas(children, n) < 10
    /\ \/ 3 * count(n, "input") > count(n, "p")
       \/ /\ 5 * link_length(tag, children, n) > text_total(children, n)
          /\ get_class_weight(n) < 25

\* what one turn of clean_document's loop appends to to_drop for node n
scheduled(n) ==
    (IF /\ tag[n] \in clean_list
        /\ ~(tag[n] \in {"object", "embed"} /\ ok_embedded_video(n))
     THEN <<n>> ELSE << >>)
    \o (IF /\ tag[n] \in {"h1", "h2", "h3", "h4"}
           /\ (get_class_weight(n) < 0 \/ density_above(n, 33, 100))
        THEN <<n>> ELSE << >>)
    \o (IF /\ tag[n] = "p"
           /\ children[n] = << >>
           /\ text_length(children, n) < 5
        THEN <<n>> ELSE << >>)
    \o (IF clean_conditionally(n) THEN <<n>> ELSE << >>)

\* clean_document up to its loop: None for no node or a node without
\* children (_readable then calls _handle_no_candidates; build_base_document
\* of _handle_no_candidates would fail on None), else the clean_list and
\* node.iter().
CleanBegin ==
    /\ pc = "clean"
    /\ IF Len(children[target]) = 0
       THEN /\ pc' = IF caller = "_readable" THEN "no_candidates" ELSE "raised"
            /\ UNCHANGED <<clean_list, to_drop, todo>>
       ELSE /\ clean_list' = {"object", "h1"}
                   \cup (IF count(target, "h2") = 1 THEN {"h2"} ELSE {})
            /\ to_drop' = << >>
            /\ todo' = iter(children, target)
            /\ pc' = "clean_iter"
    /\ UNCHANGED <<dom, input, candidates, should_drop, winner, target,
                   caller, siblings, history, output>>

\* One turn of the loop of clean_document.
clean_document ==
    /\ pc = "clean_iter"
    /\ todo # << >>
    /\ LET n == Head(todo)
       IN  /\ attr' = IF attr[n].style # "-"
                      THEN [attr EXCEPT ![n].style = ""]
                      ELSE attr
           /\ to_drop' = to_drop \o scheduled(n)
           /\ condemned' = IF ConditionalDrop(n)
                           THEN condemned \cup {n} ELSE condemned
    /\ todo' = Tail(todo)
    /\ UNCHANGED <<tag, parent, children, input, pc, candidates, should_drop,
                   winner, target, clean_list, caller, siblings,
                   long_paragraphs, output>>

\* The loop is over: drop_nodes_with_parents(to_drop), and the node goes
\* back to the caller, who hands it to build_base_document.
CleanDrop ==
    /\ pc = "clean_iter"
    /\ todo = << >>
    /\ parent' = drop_nodes_with_parents(parent, children, to_drop)[1]
    /\ children' = drop_nodes_with_parents(parent, children, to_drop)[2]
    /\ pc' = "build"
    /\ UNCHANGED <<tag, attr, input, todo, candidates, should_drop, winner,
                   target, clean_list, to_drop, caller, siblings, history,
                   output>>

\* ------------------------------------------------------------ envelopes
ReadabilityBody == <<"readabilityBody">>
ParsingError == <<"parsing-error">>

\* fromstring(NULL_DOCUMENT) with `root` appended to its <body>
null_document(tg, par, ch, root) ==
    LET u == unlink(par, ch, root)
    IN  [tag |-> [tg EXCEPT ![NullHtml] = "html", ![NullHead] = "head",
                            ![NullMeta] = "meta", ![NullBody] = "body"],
         parent |-> [u[1] EXCEPT ![NullHead] = NullHtml, ![NullMeta] = NullHead,
                                 ![NullBody] = NullHtml, ![root] = NullBody],
         children |-> [u[2] EXCEPT ![NullHtml] = <<NullHead, NullBody>>,
                                   ![NullHead] = <<NullMeta>>,
                                   ![NullBody] = <<root>>],
         output |-> NullHtml]

\* build_base_document, lines 84-88: the element that becomes the envelope
found_body(html) ==
    LET bodies == findall(tag, children, html, "body")
    IN  IF tag[html] = "body" THEN html
        ELSE IF bodies # << >> THEN Head(bodies) ELSE None

\* build_base_document, lines 91-100: no body, so html goes into a new <div>
wrap_in_fragment(html, frag_opt) ==
    LET a == append(parent, children, Frag, html)
        tg == [tag EXCEPT ![Frag] = "div"]
        at == [attr EXCEPT ![Frag].id = ReadabilityBody]
    IN  IF ~frag_opt
        THEN [attr |-> at] @@ null_document(tg, a[1], a[2], Frag)
        ELSE [tag |-> tg, parent |-> a[1], children |-> a[2],
              attr |-> at, output |-> Frag]

\* body_as_envelope without the retagging of lines 85 and 102
body_as_envelope_keeps_tag(body, frag_opt) ==
    LET at == [attr EXCEPT ![body].id = ReadabilityBody]
    IN  IF ~frag_opt
        THEN [attr |-> at] @@ null_document(tag, parent, children, body)
        ELSE [tag |-> tag, parent |-> parent, children |-> children,
              attr |-> at, output |-> body]

\* build_base_document, lines 85 and 102-110: the body becomes the envelope
body_as_envelope(body, frag_opt) ==
    LET tg == [tag EXCEPT ![body] = "div"]
        at == [attr EXCEPT ![body].id = ReadabilityBody]
    IN  IF ~frag_opt
        THEN [attr |-> at] @@ null_document(tg, parent, children, body)
        ELSE [tag |-> tg, parent |-> parent, children |-> children,
              attr |-> at, output |-> body]

\* build_base_document(html, fragment): the new tree, attributes and root
build_base_document(html, frag_opt) ==
    IF found_body(html) = None
    THEN wrap_in_fragment(html, frag_opt)
    ELSE body_as_envelope(found_body(html), frag_opt)

\* build_error_document(html, fragment)
build_error_document(html, frag_opt) ==
    LET tg == [tag EXCEPT ![Frag] = "div"]
        at == [attr EXCEPT ![Frag].id = ReadabilityBody,
                           ![Frag].cls = ParsingError]
    IN  IF ~frag_opt
        THEN [attr |-> at] @@ null_document(tg, parent, children, Frag)
        ELSE [tag |-> tg, parent |-> parent, children |-> children,
              attr |-> at, output |-> Frag]

\* doc = build_base_document(node, self.fragment), in _readable and in
\* _handle_no_candidates; _readable returns doc.
Build ==
    /\ pc = "build"
    /\ LET doc == build_base_document(target, fragment)
       IN  /\ tag' = doc.tag
           /\ parent' = doc.parent
           /\ children' = doc.children
           /\ attr' = doc.attr
           /\ output' = doc.output
    /\ pc' = "done"
    /\ UNCHANGED <<input, todo, candidates, should_drop, winner, target,
                   clean_list, to_drop, caller, siblings, history>>

\* _handle_no_candidates: with a document that has children, the scheduled
\* drops and prep_article(self.doc); else build_error_document(self.fragment),
\* whose one argument binds to html and leaves fragment at its default.
HandleNoCandidates ==
    /\ pc = "no_candidates"
    /\ IF parsed /\ doc_len > 0
       THEN /\ parent' = drop_nodes_with_parents(parent, children, should_drop)[1]
            /\ children' = drop_nodes_with_parents(parent, children, should_drop)[2]
            /\ target' = 1
            /\ pc' = "clean"
            /\ UNCHANGED <<tag, attr, output>>
       ELSE LET doc == build_error_document(fragment, TRUE)
            IN  /\ tag' = doc.tag
                /\ parent' = doc.parent
                /\ children' = doc.children
                /\ attr' = doc.attr
                /\ output' = doc.output
                /\ pc' = "done"
                /\ UNCHANGED target
    /\ caller' = "_handle_no_candidates"
    /\ UNCHANGED <<input, todo, candidates, should_drop, winner, clean_list,
                   to_drop, siblings, history>>

Next ==
    \/ Doc
    \/ transform_misused_divs_into_paragraphs
    \/ TransformReturn
    \/ Candidates
    \/ Readable
    \/ check_siblings
    \/ SiblingsReturn
    \/ CleanBegin
    \/ clean_document
    \/ CleanDrop
    \/ Build
    \/ HandleNoCandidates

Spec == Init /\ [][Next]_vars

\* ================================================================ claims
Returned == pc = "done"
\* _readable returned what build_base_document made of the winner
WinnerReturned == pc = "done" /\ caller = "_readable"
\* the elements of the returned tree
OutputNodes == Range(iter(children, output))
\* the <div id="readabilityBody"> of the result: the root, or the child of
\* the <body> of the HTML shell
Envelope == IF output = NullHtml THEN Head(children[NullBody]) ELSE output
IsEnvelope(n) == tag[n] = "div" /\ attr[n].id = ReadabilityBody
position(s, x) == CHOOSE i \in 1..Len(s) : s[i] = x

\* C1: with fragment=true, whatever _readable returns (winner, no
\* candidates, winner without children, no document) has a root with tag
\* div and id readabilityBody.
C1_FragmentRootIsEnvelope ==
    (Returned /\ fragment) => IsEnvelope(output)

\* C1 witness: a winner was found and returned inside the envelope.
C1_Witness ==
    /\ WinnerReturned
    /\ fragment
    /\ winner \in OutputNodes
    /\ IsEnvelope(output)

\* C2 (as claimed): no element find_candidates classified as unlikely is
\* in the tree _readable returns.
C2_UnlikelyAbsent ==
    Returned =>
        \A n \in Range(should_drop) : is_unlikely_node(n) => n \notin OutputNodes

\* C3 (as claimed): every node clean_document visited that meets the
\* conditional-drop test of the claim, the cleaned root included, is absent
\* from the returned tree.
C3_CondemnedAbsent ==
    Returned => \A n \in condemned : n \notin OutputNodes

\* C3 (amended): every such node other than the root handed to
\* clean_document is absent from the returned tree.
C3_CondemnedBelowRootAbsent ==
    Returned => \A n \in condemned : n # target => n \notin OutputNodes

\* C3 witness: a node below the cleaned root met the test and is gone from
\* the returned tree.
C3_Witness ==
    /\ Returned
    /\ \E n \in condemned : n # target /\ parent[n] = None /\ n \notin OutputNodes

\* C4 (as claimed): every long, link-light <p> sibling of the winner is in
\* the returned tree as a child of the envelope root.
C4_LongParagraphChildOfRoot ==
    WinnerReturned =>
        \A n \in long_paragraphs \ {winner} :
            n \in OutputNodes /\ parent[n] = Envelope

\* C4 (amended): every such sibling that clean_document did not schedule
\* for removal is in the returned tree as a child of the winner, itself the
\* child of the envelope; one that clean_document scheduled is absent.
C4_LongParagraphChildOfWinner ==
    WinnerReturned =>
        \A n \in long_paragraphs \ {winner} :
            IF n \in Range(to_drop)
            THEN n \notin OutputNodes
            ELSE /\ n \in OutputNodes
                 /\ parent[n] = winner
                 /\ parent[winner] = Envelope

\* C4 witness: a long paragraph beside the winner was appended to it and
\* came through the cleaning.
C4_Witness ==
    /\ WinnerReturned
    /\ \E n \in long_paragraphs \ {winner} :
          n \notin Range(to_drop) /\ parent[n] = winner /\ n \in OutputNodes

\* C5 (as claimed): with fragment=true the result is the bare envelope;
\* with fragment=false it is an <html> document whose <body> holds the
\* envelope as its one child, also for the error envelope.
C5_FragmentHonoured ==
    Returned =>
        IF fragment THEN IsEnvelope(output)
        ELSE /\ tag[output] = "html"
             /\ \E b \in Range(children[output]) :
                   /\ tag[b] = "body"
                   /\ Len(children[b]) = 1
                   /\ IsEnvelope(children[b][1])

\* C6 (as claimed): a winner left without children by sibling extension
\* and cleaning is not what _readable returns.
C6_EmptyWinnerNotReturned ==
    (Returned /\ winner # None /\ children[winner] = << >>) =>
        winner \notin OutputNodes

\* C7 (as claimed): the winner has the highest content_score, and of the
\* candidates with that score it is the first in document order.
C7_EarliestOfHighestWins ==
    [][(pc = "readable" /\ candidates # << >>) =>
         \A c \in DOMAIN candidates :
            /\ score_ge(candidates[winner'], candidates[c])
            /\ score_ge(candidates[c], candidates[winner']) =>
                  position(iter(children, 1), winner')
                      <= position(iter(children, 1), c)]_vars

\* C8 (as claimed): no turn of a traversal's loop (the normalizer's, the
\* sibling extension's, the cleaner's) changes a tag, an attribute or the
\* tree.
C8_ScanThenMutate ==
    [][(pc \in {"transform", "siblings", "clean_iter"} /\ todo # << >>) =>
         UNCHANGED dom]_vars

\* C9 (as claimed): after transform_misused_divs_into_paragraphs no <div>
\* is left without a <div> child.
C9_NoDivWithoutDivChild ==
    (pc = "candidates" /\ parsed) =>
        \A n \in Node :
            tag[n] = "div" => \E c \in Range(children[n]) : tag[c] = "div"

\* C9 (amended): after the pass an element parsed as <div> is a <div> if
\* one of its children was parsed as <div>, and a <p> if none was; no other
\* tag changed.
C9_DivKeptIffParsedDivChild ==
    (pc = "candidates" /\ parsed) =>
        \A n \in Node :
            /\ content[n].tag # "div" => tag[n] = content[n].tag
            /\ content[n].tag = "div" =>
                  tag[n] = (IF \E c \in Range(children[n]) : content[c].tag = "div"
                            THEN "div" ELSE "p")

\* C9 witness: the pass is over and a <div> is left whose children, one of
\* them parsed as <div>, are none of them a <div> any more.
C9_Witness ==
    /\ pc = "candidates"
    /\ parsed
    /\ \E n \in Node :
          /\ tag[n] = "div"
          /\ \E c \in Range(children[n]) : content[c].tag = "div"
          /\ \A c \in Range(children[n]) : tag[c] # "div"

\* C10 (as claimed): no turn of check_siblings' loop fails or takes the
\* winner from its parent.
C10_WinnerKeepsParent ==
    [][pc = "siblings" =>
         pc' # "raised" /\ parent'[winner] = parent[winner]]_vars

====
